---------------------------- MODULE Spec2Model ----------------------------
(***************************************************************************)
(* Model of the personal library manager (src/main.py).                    *)
(*                                                                         *)
(* The store is one SQLite table `books` with an INTEGER PRIMARY KEY       *)
(* AUTOINCREMENT id.  The table is modelled as the rowid b-tree: a         *)
(* sequence of rows in increasing id order, together with the counter     *)
(* SQLite keeps in sqlite_sequence for an AUTOINCREMENT column.  Text is   *)
(* modelled as a sequence of one-character strings so that LOWER(), LIKE   *)
(* and `=` can be computed character by character.                         *)
(***************************************************************************)
EXTENDS Integers, Sequences, FiniteSets

VARIABLES
    books,   \* the rows of table books, in rowid (b-tree) order
    seq,     \* sqlite_sequence.seq for books: the largest id ever assigned
    born,    \* history: the id and the book of every INSERT, in call order
    last,    \* the last call: [op |-> name, arg |-> its argument]
    ret      \* what the last call returned (or showed): <<kind, value>>

vars == <<books, seq, born, last, ret>>

----------------------------------------------------------------------------
(* Bounds of the model *)

MaxAdds == 3

(* Program constants *)

MinYear == 1000
MaxYear == 9999

----------------------------------------------------------------------------
(* Text *)

LowerChar(c) ==
    IF c = "A" THEN "a" ELSE IF c = "B" THEN "b" ELSE c

\* str.lower() of Python and LOWER() of SQLite; they agree on ASCII text
Lower(s) == [i \in 1..Len(s) |-> LowerChar(s[i])]

\* x LIKE p of SQLite: % is any run of characters, _ is any one character,
\* any other character matches itself, ASCII letters regardless of case
RECURSIVE Like(_, _)
Like(p, s) ==
    IF p = <<>> THEN s = <<>>
    ELSE IF Head(p) = "%"
         THEN Like(Tail(p), s) \/ (s # <<>> /\ Like(p, Tail(s)))
    ELSE IF s = <<>> THEN FALSE
    ELSE /\ (Head(p) = "_" \/ LowerChar(Head(p)) = LowerChar(Head(s)))
         /\ Like(Tail(p), Tail(s))

\* int(read_status) for the bool of the checkbox
IntOf(b) == IF b THEN 1 ELSE 0

\* None, and a returned value that is not None
None == <<>>
Some(x) == <<x>>

----------------------------------------------------------------------------
(* The table *)

Ids(bks) == {bks[i].id : i \in 1..Len(bks)}

MaxRowid(bks) == IF bks = <<>> THEN 0 ELSE bks[Len(bks)].id

\* mutant: the rowid of a plain INTEGER PRIMARY KEY, without AUTOINCREMENT
NextId_maxrowid(bks, sq) == MaxRowid(bks) + 1

\* the rowid an AUTOINCREMENT column gives the next INSERT: one more than the
\* largest rowid the table has ever held
NextId(bks, sq) ==
    (IF sq > MaxRowid(bks) THEN sq ELSE MaxRowid(bks)) + 1

\* the b-tree insert: the row goes to its place in rowid order
BtreeInsert(bks, row) ==
    LET lo == SelectSeq(bks, LAMBDA r : r.id < row.id)
        hi == SelectSeq(bks, LAMBDA r : r.id > row.id)
    IN  lo \o <<row>> \o hi

\* the rows a WHERE title = ? selects (BINARY collation: exact, case-sensitive)
TitleIs(bks, title) == SelectSeq(bks, LAMBDA r : r.title = title)

----------------------------------------------------------------------------
(* PersonalLibraryManager *)

\* mutant: the checkbox is dropped and every book is stored as unread
add_book_unread(bks, sq, title, author, year, genre, read_status) ==
    LET row == [id |-> NextId(bks, sq), title |-> title, author |-> author,
                year |-> year, genre |-> genre, read |-> 0]
    IN  [books |-> BtreeInsert(bks, row), seq |-> row.id, id |-> Some(row.id)]

\* add_book: INSERT INTO books (title, author, year, genre, read) VALUES (...)
\* The CHECK(read IN (0,1)) constraint rejects the row otherwise.
add_book(bks, sq, title, author, year, genre, read_status) ==
    LET row == [id |-> NextId(bks, sq), title |-> title, author |-> author,
                year |-> year, genre |-> genre, read |-> IntOf(read_status)]
    IN  IF row.read \in {0, 1}
        THEN [books |-> BtreeInsert(bks, row), seq |-> row.id, id |-> Some(row.id)]
        ELSE [books |-> bks, seq |-> sq, id |-> None]

\* mutant: DELETE ... WHERE LOWER(title) = LOWER(?)
remove_book_nocase(bks, title) ==
    LET hit(r) == Lower(r.title) = Lower(title)
    IN  [books |-> SelectSeq(bks, LAMBDA r : ~ hit(r)),
         ret |-> Len(SelectSeq(bks, hit)) > 0]

\* remove_book: DELETE FROM books WHERE title = ?; return cursor.rowcount > 0
remove_book(bks, title) ==
    LET rowcount == Len(TitleIs(bks, title))
    IN  [books |-> SelectSeq(bks, LAMBDA r : r.title # title),
         ret |-> rowcount > 0]

\* search_book: SELECT * FROM books
\*              WHERE LOWER(title) LIKE ? OR LOWER(author) LIKE ?
\* with both parameters f"%{query.lower()}%"
search_book(bks, query) ==
    LET pat == <<"%">> \o Lower(query) \o <<"%">>
    IN  SelectSeq(bks, LAMBDA r : \/ Like(pat, Lower(r.title))
                                  \/ Like(pat, Lower(r.author)))

\* mutant: `if result[0]:` for `if result:`, the flag tested for the row
mark_as_read_unread_truthy(bks, title) ==
    LET result == TitleIs(bks, title)
    IN  IF result # <<>> /\ result[1].read # 0
        THEN LET new_status == 1 - result[1].read
             IN  [books |-> [i \in 1..Len(bks) |->
                               IF bks[i].title = title
                               THEN [bks[i] EXCEPT !.read = new_status]
                               ELSE bks[i]],
                  ret |-> Some(new_status)]
        ELSE [books |-> bks, ret |-> None]

\* mark_as_read_unread: fetchone() of SELECT read ... WHERE title = ? is the
\* first matching row of the rowid scan; the UPDATE has the same WHERE clause
mark_as_read_unread(bks, title) ==
    LET result == TitleIs(bks, title)
    IN  IF result # <<>>
        THEN LET new_status == 1 - result[1].read
             IN  [books |-> [i \in 1..Len(bks) |->
                               IF bks[i].title = title
                               THEN [bks[i] EXCEPT !.read = new_status]
                               ELSE bks[i]],
                  ret |-> Some(new_status)]
        ELSE [books |-> bks, ret |-> None]

\* mutant: SELECT * FROM books ORDER BY id DESC
get_library_desc(bks) == [i \in 1..Len(bks) |-> bks[Len(bks) + 1 - i]]

\* get_library: SELECT * FROM books, a scan of the rowid b-tree
get_library(bks) == bks

\* mutant: the quotient without the `if total_books else 0` guard
get_statistics_noguard(bks) ==
    LET total_books == Len(bks)
        read_books == Len(SelectSeq(bks, LAMBDA r : r.read = 1))
    IN  <<total_books, read_books,
          [num |-> read_books * 100, den |-> total_books]>>

\* get_statistics.  The percentage is the quotient read_books / total_books
\* times 100, kept as the exact fraction num/den; 0 is 0/1.
get_statistics(bks) ==
    LET total_books == Len(bks)
        read_books == Len(SelectSeq(bks, LAMBDA r : r.read = 1))
        percentage_read ==
            IF total_books # 0
            THEN [num |-> read_books * 100, den |-> total_books]
            ELSE [num |-> 0, den |-> 1]
    IN  <<total_books, read_books, percentage_read>>

----------------------------------------------------------------------------
(* Inputs *)

\* the books a caller submits: title, author, year, genre
Catalogue ==
    { [title |-> <<"a">>, author |-> <<"B">>, year |-> 1965, genre |-> <<"g">>],
      [title |-> <<"A">>, author |-> <<"a", "b">>, year |-> 2001, genre |-> <<"h">>],
      [title |-> <<"a">>, author |-> <<"a", "b">>, year |-> 2001, genre |-> <<"g">>] }

Titles == {<<"a">>, <<"A">>, <<"b">>}

Queries == {<<>>, <<"a">>, <<"A">>, <<"B">>, <<"a", "b">>, <<"b", "a">>,
            <<"_">>, <<"%">>}

----------------------------------------------------------------------------
(* The store, called directly *)

Init ==
    /\ books = <<>>
    /\ seq = 0
    /\ born = <<>>
    /\ last = [op |-> "init", arg |-> <<>>]
    /\ ret = <<"none", None>>

Add(b, rs) ==
    /\ Len(born) < MaxAdds
    /\ LET r == add_book(books, seq, b.title, b.author, b.year, b.genre, rs)
       IN  /\ books' = r.books
           /\ seq' = r.seq
           /\ born' = IF r.id # None
                      THEN Append(born, [id |-> r.id[1], title |-> b.title,
                                         author |-> b.author, year |-> b.year,
                                         genre |-> b.genre])
                      ELSE born
    /\ last' = [op |-> "add", arg |-> [book |-> b, read_status |-> rs]]
    /\ ret' = <<"none", None>>

Remove(t) ==
    /\ LET r == remove_book(books, t)
       IN  books' = r.books /\ ret' = <<"bool", r.ret>>
    /\ last' = [op |-> "remove", arg |-> t]
    /\ UNCHANGED <<seq, born>>

Toggle(t) ==
    /\ LET r == mark_as_read_unread(books, t)
       IN  books' = r.books /\ ret' = <<"status", r.ret>>
    /\ last' = [op |-> "toggle", arg |-> t]
    /\ UNCHANGED <<seq, born>>

Search(q) ==
    /\ ret' = <<"rows", search_book(books, q)>>
    /\ last' = [op |-> "search", arg |-> q]
    /\ UNCHANGED <<books, seq, born>>

ListAll ==
    /\ ret' = <<"rows", get_library(books)>>
    /\ last' = [op |-> "list", arg |-> <<>>]
    /\ UNCHANGED <<books, seq, born>>

Statistics ==
    /\ ret' = <<"stats", get_statistics(books)>>
    /\ last' = [op |-> "stats", arg |-> <<>>]
    /\ UNCHANGED <<books, seq, born>>

Next ==
    \/ \E b \in Catalogue, rs \in BOOLEAN : Add(b, rs)
    \/ \E t \in Titles : Remove(t)
    \/ \E t \in Titles : Toggle(t)
    \/ \E q \in Queries : Search(q)
    \/ ListAll
    \/ Statistics

Spec == Init /\ [][Next]_vars

----------------------------------------------------------------------------
(* The front end: the tabs of the page that write to the store *)

FormTitles == {<<>>, <<"a">>}
RemoveTitles == {<<>>, <<"a">>, <<"A">>}
FormAuthors == {<<>>, <<"B">>}
FormGenres == {<<>>, <<"g">>}
FormYears == {MinYear - 1, MinYear, MaxYear, MaxYear + 1}

\* mutant: the year tested from below only
FormValid_noupper(title, author, year, genre) ==
    /\ title # <<>>
    /\ author # <<>>
    /\ genre # <<>>
    /\ MinYear <= year

\* if title and author and genre and 1000 <= year <= 9999
FormValid(title, author, year, genre) ==
    /\ title # <<>>
    /\ author # <<>>
    /\ genre # <<>>
    /\ MinYear <= year /\ year <= MaxYear

\* the Add Book button
AddBookTab(title, author, year, genre, read_status) ==
    /\ last' = [op |-> "AddBookTab",
                arg |-> [title |-> title, author |-> author, year |-> year,
                         genre |-> genre, read_status |-> read_status]]
    /\ IF FormValid(title, author, year, genre)
       THEN /\ Len(born) < MaxAdds
            /\ LET r == add_book(books, seq, title, author, year, genre,
                                 read_status)
               IN  /\ books' = r.books
                   /\ seq' = r.seq
                   /\ born' = IF r.id # None
                              THEN Append(born,
                                     [id |-> r.id[1], title |-> title,
                                      author |-> author, year |-> year,
                                      genre |-> genre])
                              ELSE born
            /\ ret' = <<"message", "success">>
       ELSE /\ ret' = <<"message", "error">>
            /\ UNCHANGED <<books, seq, born>>

\* the Remove Book button
RemoveBookTab(title) ==
    /\ last' = [op |-> "RemoveBookTab", arg |-> title]
    /\ IF title # <<>>
       THEN LET r == remove_book(books, title)
            IN  /\ books' = r.books
                /\ ret' = <<"message", IF r.ret THEN "success" ELSE "not found">>
       ELSE /\ ret' = <<"message", "error">>
            /\ books' = books
    /\ UNCHANGED <<seq, born>>

\* the Read/Unread button of the i-th book of the Home tab
HomeToggle(i) ==
    /\ i \in 1..Len(get_library(books))
    /\ LET book == get_library(books)[i]
       IN  /\ books' = mark_as_read_unread(books, book.title).books
           /\ last' = [op |-> "HomeToggle", arg |-> book.id]
    /\ ret' = <<"message", "rerun">>
    /\ UNCHANGED <<seq, born>>

NextUI ==
    \/ \E t \in FormTitles, a \in FormAuthors, y \in FormYears,
          g \in FormGenres, rs \in BOOLEAN : AddBookTab(t, a, y, g, rs)
    \/ \E t \in RemoveTitles : RemoveBookTab(t)
    \/ \E i \in 1..MaxAdds : HomeToggle(i)

SpecUI == Init /\ [][NextUI]_vars

----------------------------------------------------------------------------
(* Properties *)

Rows(bks) == {bks[i] : i \in 1..Len(bks)}

\* the place of the first row with this title in the rowid scan
FirstWith(bks, t) ==
    CHOOSE i \in 1..Len(bks) :
        bks[i].title = t /\ \A j \in 1..(i - 1) : bks[j].title # t

HasTitle(bks, t) == \E i \in 1..Len(bks) : bks[i].title = t

\* C1: toggleRead(title) on a table where several rows share the title flips
\* the read flag of the row with the smallest id only and leaves the read
\* flag of every other row, the other rows with that title included, as it was.
C1_ToggleFlipsOnlyFirst ==
    [][\A t \in Titles :
         (last'.op = "toggle" /\ last'.arg = t /\ Len(TitleIs(books, t)) > 1)
         => /\ Len(books') = Len(books)
            /\ \A i \in 1..Len(books) :
                 books'[i].read = IF i = FirstWith(books, t)
                                  THEN 1 - books[i].read
                                  ELSE books[i].read]_vars

\* C2: for every reachable table and every title t present in it, one
\* toggleRead(t) sets the read flag of the toggled (first) row to the opposite
\* value and returns that value, and a second toggleRead(t) right after it
\* gives back the table as it was before the first.
C2_ToggleTwiceRestores ==
    \A t \in Titles :
        HasTitle(books, t) =>
            LET f == FirstWith(books, t)
                once == mark_as_read_unread(books, t)
                twice == mark_as_read_unread(once.books, t)
            IN  /\ once.books[f].read = 1 - books[f].read
                /\ once.ret = Some(once.books[f].read)
                /\ twice.books = books

\* C3: remove(title) deletes exactly the rows whose title is the argument,
\* character for character, leaves every other row as it was and in place,
\* and returns TRUE exactly when it deleted a row; for a title no row has it
\* returns FALSE and the table is the same.
C3_RemoveExact ==
    [][\A t \in Titles :
         (last'.op = "remove" /\ last'.arg = t)
         => /\ Rows(books') = {r \in Rows(books) : r.title # t}
            /\ Len(books') = Cardinality({i \in 1..Len(books) : books[i].title # t})
            /\ ret'[2] = (\E r \in Rows(books) : r.title = t)
            /\ (~ HasTitle(books, t)) => (ret'[2] = FALSE /\ books' = books)
            /\ seq' = seq]_vars

\* a removal that deleted a row and kept one whose title differs in case only
C3_Witness ==
    /\ last.op = "remove"
    /\ ret[2] = TRUE
    /\ \E r \in Rows(books) : r.title # last.arg /\ Lower(r.title) = Lower(last.arg)

\* C4: add(title, author, year, genre, read) adds exactly one row, with the
\* submitted title, author, year, genre and read flag and an id no row of the
\* table had; the rows that were there are unchanged, and listAll() then
\* returns them plus the new row.
C4_AddOneRow ==
    [][last'.op = "add"
       => LET b == last'.arg.book
              new == Rows(books') \ Rows(books)
          IN  /\ Len(books') = Len(books) + 1
              /\ Rows(books) \subseteq Rows(books')
              /\ Cardinality(new) = 1
              /\ \A r \in new :
                   /\ r.title = b.title /\ r.author = b.author
                   /\ r.year = b.year /\ r.genre = b.genre
                   /\ (r.read = 1) = last'.arg.read_status
                   /\ r.read \in {0, 1}
                   /\ r.id \notin Ids(books)
              /\ Rows(get_library(books')) = Rows(books) \cup new
              /\ Len(get_library(books')) = Len(books) + 1]_vars

\* a book added as read to a table that holds rows and has lost one
C4_Witness ==
    /\ last.op = "add"
    /\ last.arg.read_status = TRUE
    /\ Len(books) >= 2
    /\ Len(born) > Len(books)

\* C5: after any sequence of add, remove and toggleRead no two rows have the
\* same id, no id was assigned twice (not even after its row was removed), and
\* the row that holds an id is still the book that INSERT gave that id to.
C5_IdsUniqueImmutable ==
    /\ \A i, j \in 1..Len(books) : i # j => books[i].id # books[j].id
    /\ \A i, j \in 1..Len(born) : i # j => born[i].id # born[j].id
    /\ \A r \in Rows(books) :
         \E k \in 1..Len(born) :
            /\ born[k].id = r.id
            /\ born[k].title = r.title /\ born[k].author = r.author
            /\ born[k].year = r.year /\ born[k].genre = r.genre

\* a book added after the row with the largest id was removed
C5_Witness ==
    /\ last.op = "add"
    /\ Len(born) >= 2
    /\ born[Len(born) - 1].id \notin Ids(books)
    /\ books # <<>>

\* q is a run of consecutive characters of s
IsSubstring(q, s) ==
    \E k \in 0..(Len(s) - Len(q)) : SubSeq(s, k + 1, k + Len(q)) = q

\* C6: search(query) returns exactly the rows for which the lower-cased query,
\* every character of it taken as itself, is a run of consecutive characters
\* of the lower-cased title or of the lower-cased author, and an empty list
\* when there is none.
C6_SearchIsSubstring ==
    last.op = "search" =>
        ret[2] = SelectSeq(books,
                LAMBDA r : \/ IsSubstring(Lower(last.arg), Lower(r.title))
                           \/ IsSubstring(Lower(last.arg), Lower(r.author)))

\* C7: statistics() returns (total, read, percentage): total is the number of
\* rows, read the number of rows with read = 1, percentage is read/total*100
\* when total > 0 and 0 when total = 0; so 0 <= read <= total,
\* 0 <= percentage <= 100, and nothing is divided by zero.
C7_Statistics ==
    last.op = "stats" =>
        LET total == ret[2][1]
            read == ret[2][2]
            pct == ret[2][3]
        IN  /\ total = Cardinality(Rows(books))
            /\ read = Cardinality({r \in Rows(books) : r.read = 1})
            /\ pct.den > 0
            /\ total > 0 => pct.num * total = read * 100 * pct.den
            /\ total = 0 => pct.num = 0
            /\ 0 <= read /\ read <= total
            /\ 0 <= pct.num /\ pct.num <= 100 * pct.den

\* statistics of a table with read and unread rows
C7_Witness ==
    /\ last.op = "stats"
    /\ ret[2][1] >= 2
    /\ 0 < ret[2][2] /\ ret[2][2] < ret[2][1]

\* C8: toggleRead(title) for a title no row has returns None and leaves the
\* table as it was; for a title some row has it returns the new read status,
\* 0 or 1, and never None.
C8_ToggleReturn ==
    [][\A t \in Titles :
         (last'.op = "toggle" /\ last'.arg = t)
         => IF HasTitle(books, t)
            THEN /\ ret'[2] # None
                 /\ ret'[2][1] \in {0, 1}
                 /\ ret'[2][1] = 1 - books[FirstWith(books, t)].read
                 /\ ret'[2][1] = books'[FirstWith(books, t)].read
            ELSE /\ ret'[2] = None
                 /\ books' = books]_vars

\* a toggle of a title that no row has, on a table that has rows
C8_Witness ==
    /\ last.op = "toggle"
    /\ ret[2] = None
    /\ books # <<>>

\* the place of an id in the history of INSERTs
BornAt(id) == CHOOSE k \in 1..Len(born) : born[k].id = id

\* C9: listAll() returns every row of the table exactly once, in strictly
\* increasing order of id, which is the order in which the rows were added.
C9_ListAllInIdOrder ==
    LET lib == get_library(books)
    IN  /\ Len(lib) = Cardinality(Rows(books))
        /\ Rows(lib) = Rows(books)
        /\ \A i, j \in 1..Len(lib) :
              i < j => /\ lib[i].id < lib[j].id
                       /\ BornAt(lib[i].id) < BornAt(lib[j].id)
        /\ last.op = "list" => ret[2] = lib

\* a listing of two or more rows after a row between or before them was removed
C9_Witness ==
    /\ last.op = "list"
    /\ Len(ret[2]) >= 2
    /\ \E i \in 1..Len(born) :
          born[i].id \notin Ids(ret[2]) /\ born[i].id < ret[2][Len(ret[2])].id

RowValid(r) ==
    /\ r.title # <<>>
    /\ r.author # <<>>
    /\ r.genre # <<>>
    /\ MinYear <= r.year /\ r.year <= MaxYear
    /\ r.read \in {0, 1}

\* C10: driven through Add Book, Remove Book and the Home tab's button only,
\* every row always has a non-empty title, author and genre, a year from 1000
\* to 9999 and a read flag 0 or 1; a submission with an empty required field
\* or a year out of range never reaches add_book and leaves the table as it was.
C10_FrontEndRowsValid ==
    /\ [](\A r \in Rows(books) : RowValid(r))
    /\ [][(/\ last'.op = "AddBookTab"
           /\ \/ last'.arg.title = <<>>
              \/ last'.arg.author = <<>>
              \/ last'.arg.genre = <<>>
              \/ last'.arg.year < MinYear
              \/ last'.arg.year > MaxYear)
          => /\ books' = books
             /\ seq' = seq
             /\ born' = born
             /\ ret'[2] = "error"]_vars

\* a rejected submission on a table that has rows
C10_Witness ==
    /\ last.op = "AddBookTab"
    /\ last.arg.title # <<>>
    /\ last.arg.year = MaxYear + 1
    /\ ret[2] = "error"
    /\ books # <<>>

=============================================================================
